---- MODULE Spec2Model ----
(***************************************************************************)
(* Model of scheduler/annotate.go: Annotate walks a job diff (job -> task  *)
(* groups -> {fields, tasks}) and appends annotations to the edited nodes. *)
(* A Go string that is parsed (a field's Old/New) is a sequence of         *)
(* one-character strings; a string that is only compared (a Name, a Type,  *)
(* a label) is a TLA+ string.  A Go map is a record [isnil, m]: a nil map  *)
(* and an allocated empty map are different values.                        *)
(***************************************************************************)
EXTENDS Integers, Sequences, FiniteSets, TLC

VARIABLES
    diff,         \* the *structs.JobDiff the caller owns and passes to Annotate
    annotations,  \* the *structs.PlanAnnotations argument of the latest call
    pc,           \* "idle" | "updates" | "count" | "tasks": position inside Annotate
    i,            \* index in diff.TaskGroups of the group being annotated
    ret,          \* result of the latest call: "none" (running / never called) | "nil" | "err"
    pre,          \* history: the value of diff when the latest call started
    calls         \* number of Annotate calls made so far

vars == <<diff, annotations, pc, i, ret, pre, calls>>

---------------------------------------------------------------------------
(* Bounds of the model *)

MaxGroups == 3
MaxTasks == 2
MaxObjects == 2
MaxFields == 2
MaxStrLen == 2
MaxCalls == 2

---------------------------------------------------------------------------
(* Labels *)

AnnotationForcesCreate == "forces create"
AnnotationForcesDestroy == "forces destroy"
AnnotationForcesInplaceUpdate == "forces in-place update"
AnnotationForcesDestructiveUpdate == "forces create/destroy update"

UpdateTypeIgnore == "ignore"
UpdateTypeCreate == "create"
UpdateTypeDestroy == "destroy"
UpdateTypeMigrate == "migrate"
UpdateTypeInplaceUpdate == "in-place update"
UpdateTypeDestructiveUpdate == "create/destroy update"

DiffTypeEdited == "Edited"
DiffTypes == {"None", "Added", "Deleted", "Edited"}

---------------------------------------------------------------------------
(* Values *)

SeqsUpTo(S, n) == UNION {[1..k -> S] : k \in 0..n}

\* A Go map[string]uint64: nil, or allocated with the entries m.
NilMap == [isnil |-> TRUE, m |-> <<>>]
MakeMap == [isnil |-> FALSE, m |-> <<>>]
\* Faulty variant: the write replaces the map instead of adding to it.
MapPutReplaces(u, k, v) == [isnil |-> FALSE, m |-> [x \in {k} |-> v]]

MapPut(u, k, v) ==
    [isnil |-> FALSE,
     m |-> [x \in (DOMAIN u.m) \cup {k} |-> IF x = k THEN v ELSE u.m[x]]]

FieldDiff(name, old, new) ==
    [Name |-> name, Old |-> old, New |-> new, Annotations |-> <<>>]
ObjectDiff(name) == [Name |-> name]
TaskDiff(type, fields, objects) ==
    [Type |-> type, Fields |-> fields, Objects |-> objects, Annotations |-> <<>>]
TaskGroupDiff(name, type, fields, tasks) ==
    [Name |-> name, Type |-> type, Fields |-> fields, Tasks |-> tasks,
     Updates |-> NilMap]
JobDiff(type, tgs) == [Type |-> type, TaskGroups |-> tgs]

DesiredUpdates(ig, pl, mi, st, ip, du) ==
    [Ignore |-> ig, Place |-> pl, Migrate |-> mi, Stop |-> st,
     InPlaceUpdate |-> ip, DestructiveUpdate |-> du]
\* A *structs.PlanAnnotations: nil, or one holding the map DesiredTGUpdates.
NilPlan == [isnil |-> TRUE, DesiredTGUpdates |-> <<>>]
PlanAnnotations(m) == [isnil |-> FALSE, DesiredTGUpdates |-> m]

---------------------------------------------------------------------------
(* strconv.Atoi on a sequence of characters: an optional sign, then one or  *)
(* more decimal digits.  The strings of the model have at most a few        *)
(* characters, far from the 64-bit range, so no range error arises.         *)

DigitChars == <<"0", "1", "2", "3", "4", "5", "6", "7", "8", "9">>
IsDigit(c) == \E d \in 1..10 : DigitChars[d] = c
DigitVal(c) == (CHOOSE d \in 1..10 : DigitChars[d] = c) - 1

RECURSIVE DigitsVal(_)
DigitsVal(s) ==
    IF s = <<>> THEN 0
    ELSE 10 * DigitsVal(SubSeq(s, 1, Len(s) - 1)) + DigitVal(s[Len(s)])

Atoi(s) ==
    LET signed == s # <<>> /\ s[1] \in {"+", "-"}
        body == IF signed THEN Tail(s) ELSE s
        ok == body # <<>> /\ \A k \in 1..Len(body) : IsDigit(body[k])
    IN  IF ~ok THEN [err |-> TRUE, v |-> 0]
        ELSE [err |-> FALSE,
              v |-> IF signed /\ s[1] = "-" THEN 0 - DigitsVal(body)
                    ELSE DigitsVal(body)]

---------------------------------------------------------------------------
(* annotateTaskGroup, step 1: merge the plan's counts into diff.Updates.    *)

\* Faulty variant: a zero count is written like any other.
SetAlways(u, k, v) == MapPut(u, k, v)

SetIfNonZero(u, k, v) == IF v # 0 THEN MapPut(u, k, v) ELSE u

\* Faulty variant: Place and Stop are written under each other's label.
annotateUpdatesSwapped(tg, plan) ==
    IF plan.isnil THEN tg
    ELSE IF tg.Name \notin DOMAIN plan.DesiredTGUpdates THEN tg
    ELSE LET c == plan.DesiredTGUpdates[tg.Name]
             u0 == IF tg.Updates.isnil THEN MakeMap ELSE tg.Updates
             u1 == SetIfNonZero(u0, UpdateTypeIgnore, c.Ignore)
             u2 == SetIfNonZero(u1, UpdateTypeDestroy, c.Place)
             u3 == SetIfNonZero(u2, UpdateTypeMigrate, c.Migrate)
             u4 == SetIfNonZero(u3, UpdateTypeCreate, c.Stop)
             u5 == SetIfNonZero(u4, UpdateTypeInplaceUpdate, c.InPlaceUpdate)
             u6 == SetIfNonZero(u5, UpdateTypeDestructiveUpdate, c.DestructiveUpdate)
         IN  [tg EXCEPT !.Updates = u6]

annotateUpdates(tg, plan) ==
    IF plan.isnil THEN tg
    ELSE IF tg.Name \notin DOMAIN plan.DesiredTGUpdates THEN tg
    ELSE LET c == plan.DesiredTGUpdates[tg.Name]
             u0 == IF tg.Updates.isnil THEN MakeMap ELSE tg.Updates
             u1 == SetIfNonZero(u0, UpdateTypeIgnore, c.Ignore)
             u2 == SetIfNonZero(u1, UpdateTypeCreate, c.Place)
             u3 == SetIfNonZero(u2, UpdateTypeMigrate, c.Migrate)
             u4 == SetIfNonZero(u3, UpdateTypeDestroy, c.Stop)
             u5 == SetIfNonZero(u4, UpdateTypeInplaceUpdate, c.InPlaceUpdate)
             u6 == SetIfNonZero(u5, UpdateTypeDestructiveUpdate, c.DestructiveUpdate)
         IN  [tg EXCEPT !.Updates = u6]

---------------------------------------------------------------------------
(* annotateCountChange: result [err, tg].                                   *)

\* Index of the first field named "Count", 0 when there is none.
FindCount(fields) ==
    IF \E k \in 1..Len(fields) : fields[k].Name = "Count"
    THEN CHOOSE k \in 1..Len(fields) :
            /\ fields[k].Name = "Count"
            /\ \A l \in 1..(k - 1) : fields[l].Name # "Count"
    ELSE 0

\* Faulty variant: equal counts are taken for a decrease.
CountLabelNoEqual(oldV, newV) ==
    IF oldV < newV THEN <<AnnotationForcesCreate>> ELSE <<AnnotationForcesDestroy>>

CountLabel(oldV, newV) ==
    IF oldV < newV THEN <<AnnotationForcesCreate>>
    ELSE IF newV < oldV THEN <<AnnotationForcesDestroy>>
    ELSE <<>>

\* Faulty variant: the error of parsing New is dropped and the field left alone.
annotateCountChangeDropsNewErr(tg) ==
    IF tg.Type # DiffTypeEdited THEN [err |-> FALSE, tg |-> tg]
    ELSE LET k == FindCount(tg.Fields) IN
         IF k = 0 THEN [err |-> FALSE, tg |-> tg]
         ELSE LET oldV == Atoi(tg.Fields[k].Old)
                  newV == Atoi(tg.Fields[k].New)
              IN  IF oldV.err THEN [err |-> TRUE, tg |-> tg]
                  ELSE IF newV.err THEN [err |-> FALSE, tg |-> tg]
                  ELSE [err |-> FALSE,
                        tg |-> [tg EXCEPT !.Fields[k].Annotations =
                                    @ \o CountLabel(oldV.v, newV.v)]]

annotateCountChange(tg) ==
    IF tg.Type # DiffTypeEdited THEN [err |-> FALSE, tg |-> tg]
    ELSE LET k == FindCount(tg.Fields) IN
         IF k = 0 THEN [err |-> FALSE, tg |-> tg]
         ELSE LET oldV == Atoi(tg.Fields[k].Old)
                  newV == Atoi(tg.Fields[k].New)
              IN  IF oldV.err THEN [err |-> TRUE, tg |-> tg]
                  ELSE IF newV.err THEN [err |-> TRUE, tg |-> tg]
                  ELSE [err |-> FALSE,
                        tg |-> [tg EXCEPT !.Fields[k].Annotations =
                                    @ \o CountLabel(oldV.v, newV.v)]]

---------------------------------------------------------------------------
(* annotateTask *)

InplaceObjects == {"LogConfig", "Service", "Constraint"}

\* Faulty variant: each object decides alone, so that a safe object undoes the
\* verdict of an unsafe one before it.
ObjectStepLastWins(destructive, oDiff) == oDiff.Name \notin InplaceObjects

\* One iteration of the loop over diff.Objects: the break of the default
\* case leaves the switch, not the loop.
ObjectStep(destructive, oDiff) ==
    IF oDiff.Name \in InplaceObjects THEN destructive ELSE TRUE

RECURSIVE ObjectsLoop(_, _, _)
ObjectsLoop(objects, k, destructive) ==
    IF k > Len(objects) THEN destructive
    ELSE ObjectsLoop(objects, k + 1, ObjectStep(destructive, objects[k]))

\* Faulty variant: the else is missing, so that a destructive task gets both labels.
annotateTaskBothLabels(t) ==
    IF t.Type # DiffTypeEdited THEN t
    ELSE LET d0 == Len(t.Fields) # 0
             destructive == ObjectsLoop(t.Objects, 1, d0)
         IN  IF destructive
             THEN [t EXCEPT !.Annotations =
                       Append(Append(@, AnnotationForcesDestructiveUpdate),
                              AnnotationForcesInplaceUpdate)]
             ELSE [t EXCEPT !.Annotations = Append(@, AnnotationForcesInplaceUpdate)]

\* Faulty variant: the check of the task's type is missing.
annotateTaskNoTypeCheck(t) ==
    LET d0 == Len(t.Fields) # 0
        destructive == ObjectsLoop(t.Objects, 1, d0)
    IN  IF destructive
        THEN [t EXCEPT !.Annotations = Append(@, AnnotationForcesDestructiveUpdate)]
        ELSE [t EXCEPT !.Annotations = Append(@, AnnotationForcesInplaceUpdate)]

annotateTask(t) ==
    IF t.Type # DiffTypeEdited THEN t
    ELSE LET d0 == Len(t.Fields) # 0
             destructive == ObjectsLoop(t.Objects, 1, d0)
         IN  IF destructive
             THEN [t EXCEPT !.Annotations = Append(@, AnnotationForcesDestructiveUpdate)]
             ELSE [t EXCEPT !.Annotations = Append(@, AnnotationForcesInplaceUpdate)]

annotateTasks(tg) ==
    [tg EXCEPT !.Tasks = [k \in 1..Len(tg.Tasks) |-> annotateTask(tg.Tasks[k])]]

---------------------------------------------------------------------------
(* Inputs *)

Chars == {"0", "3", "a", "-"}
Strs == SeqsUpTo(Chars, MaxStrLen)

S3 == <<"3">>
S30 == <<"3", "0">>
Sabc == <<"a", "b", "c">>

\* Task groups are named by their position: names are unique within a job.
GroupNames == <<"web", "db", "cache", "api">>

SimpleTask == TaskDiff("Edited", <<>>, <<ObjectDiff("Service")>>)
AddedTask == TaskDiff("Added", <<>>, <<ObjectDiff("Template")>>)

\* Family 1: the shape of the walk. Groups of every type, with a Count
\* field that parses or not, each holding an edited and an added task.
WalkFields == {<<FieldDiff("Count", S3, S30)>>, <<FieldDiff("Count", Sabc, S3)>>}
WalkJobs ==
    {JobDiff("Edited",
             [k \in 1..n |-> TaskGroupDiff(GroupNames[k], ty[k], fs[k],
                                          <<SimpleTask, AddedTask>>)]) :
        n \in 0..MaxGroups, ty \in [1..MaxGroups -> DiffTypes],
        fs \in [1..MaxGroups -> WalkFields]}

\* Family 2: jobs that were not edited.
OtherJobs ==
    {JobDiff(jt, tgs) :
        jt \in DiffTypes \ {"Edited"},
        tgs \in {<<>>} \cup
                {<<TaskGroupDiff("web", ty, fs, <<SimpleTask, AddedTask>>)>> :
                    ty \in DiffTypes, fs \in WalkFields}}

\* Family 3: one group whose Count field takes every short string on one
\* side.
CountPairs ==
    ({S3, Sabc} \X Strs) \cup (Strs \X {S3, Sabc}) \cup {<<<<"+", "3">>, S30>>}
CountJobs ==
    {JobDiff("Edited",
             <<TaskGroupDiff("web", "Edited", <<FieldDiff("Count", p[1], p[2])>>,
                             <<SimpleTask>>)>>) : p \in CountPairs}

\* Family 4: one group with every short sequence of fields.
FieldCands ==
    {FieldDiff("Meta", S3, S30), FieldDiff("Count", S3, S30),
     FieldDiff("Count", S30, S3), FieldDiff("Count", Sabc, S3)}
FieldJobs ==
    {JobDiff("Edited", <<TaskGroupDiff("web", ty, fs, <<SimpleTask>>)>>) :
        ty \in {"Edited", "Deleted"}, fs \in SeqsUpTo(FieldCands, MaxFields)}

\* Family 5: one edited group holding one task of every kind.
ObjectNames == {"LogConfig", "Service", "Constraint", "Template"}
ObjectSeqs ==
    {[k \in 1..Len(s) |-> ObjectDiff(s[k])] : s \in SeqsUpTo(ObjectNames, MaxObjects)}
TaskCands ==
    {TaskDiff(ty, fs, os) :
        ty \in DiffTypes, fs \in {<<>>, <<FieldDiff("Driver", S3, S30)>>},
        os \in ObjectSeqs}
TaskJobs ==
    {JobDiff("Edited", <<TaskGroupDiff("web", "Edited", <<>>, <<t>>)>>) :
        t \in TaskCands}

\* Family 6: one group with every short sequence of tasks.
SmallTasks ==
    {TaskDiff(ty, <<>>, <<ObjectDiff(o)>>) :
        ty \in {"Edited", "Added"}, o \in {"Service", "Template"}}
TasksJobs ==
    {JobDiff("Edited", <<TaskGroupDiff("web", ty, <<>>, ts)>>) :
        ty \in {"Edited", "None"}, ts \in SeqsUpTo(SmallTasks, MaxTasks)}

Jobs == WalkJobs \cup OtherJobs \cup CountJobs \cup FieldJobs \cup TaskJobs \cup TasksJobs

ZeroUpdates == DesiredUpdates(0, 0, 0, 0, 0, 0)
SomeUpdates == DesiredUpdates(0, 2, 0, 1, 0, 0)
AllUpdates == DesiredUpdates(1, 2, 3, 4, 5, 6)

Plans ==
    {NilPlan,
     PlanAnnotations([n \in {"db"} |-> SomeUpdates]),
     PlanAnnotations([n \in {"web", "db", "cache"} |->
                        IF n = "web" THEN ZeroUpdates ELSE AllUpdates]),
     PlanAnnotations([n \in {"web"} |-> SomeUpdates]),
     PlanAnnotations([n \in {"web", "db", "cache"} |->
                        IF n = "web" THEN AllUpdates
                        ELSE IF n = "db" THEN ZeroUpdates ELSE SomeUpdates])}

---------------------------------------------------------------------------
(* The state machine *)

Init ==
    /\ diff \in Jobs
    /\ annotations = NilPlan
    /\ pc = "idle"
    /\ i = 0
    /\ ret = "none"
    /\ pre = diff
    /\ calls = 0

\* annotateTaskGroup returned nil for group i: the loop of Annotate goes on
\* to the next group, or Annotate returns nil.
LoopNext ==
    IF i < Len(diff.TaskGroups)
    THEN /\ i' = i + 1
         /\ pc' = "updates"
         /\ ret' = "none"
    ELSE /\ i' = 0
         /\ pc' = "idle"
         /\ ret' = "nil"

\* Faulty variant: the check of the job's type is missing.
EarlyReturnNoTypeCheck(d) == Len(d.TaskGroups) = 0

\* The two early returns of Annotate: the job was not edited, or it has no
\* task-group diffs.
EarlyReturn(d) == d.Type # DiffTypeEdited \/ Len(d.TaskGroups) = 0

\* Annotate is called: the early returns, or the entry into the loop.
Annotate(plan) ==
    /\ pc = "idle"
    /\ calls < MaxCalls
    /\ calls' = calls + 1
    /\ annotations' = plan
    /\ pre' = diff
    /\ diff' = diff
    /\ IF EarlyReturn(diff)
       THEN pc' = "idle" /\ i' = 0 /\ ret' = "nil"
       ELSE pc' = "updates" /\ i' = 1 /\ ret' = "none"

\* Faulty variant: the tasks are annotated before the Count field is parsed.
TaskGroupUpdatesThenTasks ==
    /\ pc = "updates"
    /\ IF diff.TaskGroups[i].Type # DiffTypeEdited
       THEN /\ diff' = diff
            /\ LoopNext
       ELSE /\ diff' = [diff EXCEPT !.TaskGroups[i] =
                            annotateTasks(annotateUpdates(@, annotations))]
            /\ pc' = "count"
            /\ UNCHANGED <<i, ret>>
    /\ UNCHANGED <<annotations, pre, calls>>

\* annotateTaskGroup on group i: the type check and the merge of the counts.
TaskGroupUpdates ==
    /\ pc = "updates"
    /\ IF diff.TaskGroups[i].Type # DiffTypeEdited
       THEN /\ diff' = diff
            /\ LoopNext
       ELSE /\ diff' = [diff EXCEPT !.TaskGroups[i] = annotateUpdates(@, annotations)]
            /\ pc' = "count"
            /\ UNCHANGED <<i, ret>>
    /\ UNCHANGED <<annotations, pre, calls>>

\* annotateTaskGroup on group i: annotateCountChange, whose error ends the
\* call.
TaskGroupCount ==
    /\ pc = "count"
    /\ LET r == annotateCountChange(diff.TaskGroups[i]) IN
       IF r.err
       THEN /\ diff' = diff
            /\ pc' = "idle"
            /\ ret' = "err"
            /\ i' = i
       ELSE /\ diff' = [diff EXCEPT !.TaskGroups[i] = r.tg]
            /\ pc' = "tasks"
            /\ UNCHANGED <<i, ret>>
    /\ UNCHANGED <<annotations, pre, calls>>

\* annotateTaskGroup on group i: the loop over the task diffs.
TaskGroupTasks ==
    /\ pc = "tasks"
    /\ IF Len(diff.TaskGroups[i].Tasks) = 0
       THEN diff' = diff
       ELSE diff' = [diff EXCEPT !.TaskGroups[i] = annotateTasks(@)]
    /\ LoopNext
    /\ UNCHANGED <<annotations, pre, calls>>

Next ==
    \/ \E plan \in Plans : Annotate(plan)
    \/ TaskGroupUpdates
    \/ TaskGroupCount
    \/ TaskGroupTasks

Spec == Init /\ [][Next]_vars

---------------------------------------------------------------------------
(* Vocabulary of the properties *)

NGroups == Len(pre.TaskGroups)
Called == calls > 0
Returned == Called /\ pc = "idle"

\* Group g has been fully annotated by the call in progress (or just ended).
Done(g) ==
    /\ Called
    /\ ~EarlyReturn(pre)
    /\ ((pc = "idle" /\ ret = "nil") \/ g < i)

\* The counts of group g have been merged by the call in progress.
Merged(g) ==
    \/ Done(g)
    \/ (Called /\ g = i /\ (pc \in {"count", "tasks"} \/ ret = "err"))

\* The Count field of group g has been classified by the call in progress.
Counted(g) == Done(g) \/ (Called /\ g = i /\ pc = "tasks")

HasEntry(plan, name) == ~plan.isnil /\ name \in DOMAIN plan.DesiredTGUpdates

UpdateTypes ==
    {UpdateTypeIgnore, UpdateTypeCreate, UpdateTypeDestroy, UpdateTypeMigrate,
     UpdateTypeInplaceUpdate, UpdateTypeDestructiveUpdate}

\* The source count of each update kind, as the specification tabulates it.
SourceCount(c, kind) ==
    CASE kind = "ignore" -> c.Ignore
      [] kind = "create" -> c.Place
      [] kind = "migrate" -> c.Migrate
      [] kind = "destroy" -> c.Stop
      [] kind = "in-place update" -> c.InPlaceUpdate
      [] kind = "create/destroy update" -> c.DestructiveUpdate

PositiveCounts(c) ==
    [kind \in {x \in UpdateTypes : SourceCount(c, x) > 0} |-> SourceCount(c, kind)]

IsPrefix(s, t) == Len(s) <= Len(t) /\ SubSeq(t, 1, Len(s)) = s

TaskLabels == {AnnotationForcesInplaceUpdate, AnnotationForcesDestructiveUpdate}
Occurrences(s, L) == Cardinality({k \in 1..Len(s) : s[k] \in L})

\* A group whose Count field makes annotateCountChange fail.
Malformed(tg) ==
    /\ tg.Type = "Edited"
    /\ FindCount(tg.Fields) # 0
    /\ \/ Atoi(tg.Fields[FindCount(tg.Fields)].Old).err
       \/ Atoi(tg.Fields[FindCount(tg.Fields)].New).err

FirstMalformed(d) ==
    IF \E g \in 1..Len(d.TaskGroups) : Malformed(d.TaskGroups[g])
    THEN CHOOSE g \in 1..Len(d.TaskGroups) :
            /\ Malformed(d.TaskGroups[g])
            /\ \A h \in 1..(g - 1) : ~Malformed(d.TaskGroups[h])
    ELSE 0

\* What a complete, successful annotateTaskGroup makes of a group.
RunGroup(tg, plan) ==
    IF tg.Type # "Edited" THEN tg
    ELSE annotateTasks(annotateCountChange(annotateUpdates(tg, plan)).tg)

\* The task t with its Objects permuted by q.
Permuted(t, q) == [t EXCEPT !.Objects = [k \in 1..Len(t.Objects) |-> t.Objects[q[k]]]]

PlanEntries(plan) == IF plan.isnil THEN {} ELSE DOMAIN plan.DesiredTGUpdates

WithZeroEntry(plan, name) ==
    PlanAnnotations([n \in PlanEntries(plan) \cup {name} |->
                        IF n = name THEN ZeroUpdates ELSE plan.DesiredTGUpdates[n]])

WithoutEntry(plan, name) ==
    PlanAnnotations([n \in PlanEntries(plan) \ {name} |-> plan.DesiredTGUpdates[n]])

\* The plan that differs from the call's plan in the way C8 compares.
OtherPlan(plan, name) ==
    IF HasEntry(plan, name) THEN WithoutEntry(plan, name) ELSE WithZeroEntry(plan, name)

\* The case of C8: no entry for the name, or an entry of six zeros.
NoCounts(plan, name) ==
    HasEntry(plan, name) => plan.DesiredTGUpdates[name] = ZeroUpdates

\* A group with its Updates reduced to the entries, nil or not.
Entries(tg) == [tg EXCEPT !.Updates = @.m]

\* What a call may change of a node, given the node before the call.
FieldFrame(f, f0) ==
    /\ f.Name = f0.Name
    /\ f.Old = f0.Old
    /\ f.New = f0.New
    /\ IsPrefix(f0.Annotations, f.Annotations)

TaskFrame(t, t0) ==
    /\ t.Type = t0.Type
    /\ t.Objects = t0.Objects
    /\ Len(t.Fields) = Len(t0.Fields)
    /\ \A f \in 1..Len(t0.Fields) : FieldFrame(t.Fields[f], t0.Fields[f])
    /\ IsPrefix(t0.Annotations, t.Annotations)

UpdatesFrame(u, u0, name) ==
    \A kind \in DOMAIN u0.m :
        /\ kind \in DOMAIN u.m
        /\ (\/ ~HasEntry(annotations, name)
            \/ kind \notin UpdateTypes
            \/ SourceCount(annotations.DesiredTGUpdates[name], kind) = 0)
              => u.m[kind] = u0.m[kind]

GroupFrame(tg, tg0) ==
    /\ tg.Name = tg0.Name
    /\ tg.Type = tg0.Type
    /\ Len(tg.Fields) = Len(tg0.Fields)
    /\ \A f \in 1..Len(tg0.Fields) : FieldFrame(tg.Fields[f], tg0.Fields[f])
    /\ Len(tg.Tasks) = Len(tg0.Tasks)
    /\ \A t \in 1..Len(tg0.Tasks) : TaskFrame(tg.Tasks[t], tg0.Tasks[t])
    /\ UpdatesFrame(tg.Updates, tg0.Updates, tg0.Name)

JobFrame ==
    /\ diff.Type = pre.Type
    /\ Len(diff.TaskGroups) = NGroups
    /\ \A g \in 1..NGroups : GroupFrame(diff.TaskGroups[g], pre.TaskGroups[g])

---------------------------------------------------------------------------
(* C6: for a job diff that is not Edited, and for an Edited job diff with  *)
(* no task-group diffs, Annotate returns nil at once and leaves the whole  *)
(* tree as it was, whatever the nested nodes and the plan hold.            *)
C6_NoOpUnlessEditedWithGroups ==
    (Called /\ (pre.Type # "Edited" \/ Len(pre.TaskGroups) = 0)) =>
        (pc = "idle" /\ ret = "nil" /\ diff = pre)

\* A deleted job holding an edited group with a malformed Count field, for
\* which the plan has counts: the call has returned nil.
C6_Witness ==
    /\ Returned
    /\ ret = "nil"
    /\ pre.Type = "Deleted"
    /\ Len(pre.TaskGroups) = 1
    /\ Malformed(pre.TaskGroups[1])
    /\ HasEntry(annotations, pre.TaskGroups[1].Name)
    /\ annotations.DesiredTGUpdates[pre.TaskGroups[1].Name] = SomeUpdates

---------------------------------------------------------------------------
(* C1: when the k-th task group of an Edited job is the first Edited one   *)
(* whose Count field does not parse, Annotate returns an error at group k, *)
(* every later group is exactly as it was before the call, and every       *)
(* earlier group still holds all that its annotation wrote.                *)
C1_ErrorStopsWalkKeepsEarlier ==
    LET k == FirstMalformed(pre) IN
    (Returned /\ pre.Type = "Edited" /\ k # 0) =>
        /\ ret = "err"
        /\ i = k
        /\ Len(diff.TaskGroups) = NGroups
        /\ \A g \in (k + 1)..NGroups : diff.TaskGroups[g] = pre.TaskGroups[g]
        /\ \A g \in 1..(k - 1) :
              diff.TaskGroups[g] = RunGroup(pre.TaskGroups[g], annotations)

\* The error arose at the second of three groups: the first, edited, holds
\* its merged counts and its task's label; the third, edited and with
\* counts in the plan, was not reached.
C1_Witness ==
    /\ Returned
    /\ ret = "err"
    /\ i = 2
    /\ NGroups = 3
    /\ pre.TaskGroups[1].Type = "Edited"
    /\ pre.TaskGroups[3].Type = "Edited"
    /\ HasEntry(annotations, "web")
    /\ HasEntry(annotations, "cache")
    /\ diff.TaskGroups[1].Updates.m = PositiveCounts(AllUpdates)
    /\ diff.TaskGroups[1].Tasks[1].Annotations = <<AnnotationForcesInplaceUpdate>>
    /\ diff.TaskGroups[1].Fields[1].Annotations = <<AnnotationForcesCreate>>
    /\ diff.TaskGroups[3].Updates = NilMap

---------------------------------------------------------------------------
(* C9: within an Edited group the steps run in the order merge, count      *)
(* classification, task classification: when the Count field fails to     *)
(* parse the call ends with the group's counts merged, no label on the     *)
(* Count field and no task annotated; without a failure every Edited task  *)
(* of the group is classified.                                             *)
C9_StepOrder ==
    /\ (Called /\ pc = "count") =>
          /\ diff.TaskGroups[i].Updates = annotateUpdates(pre.TaskGroups[i], annotations).Updates
          /\ diff.TaskGroups[i].Fields = pre.TaskGroups[i].Fields
          /\ diff.TaskGroups[i].Tasks = pre.TaskGroups[i].Tasks
    /\ (Called /\ pc = "tasks") =>
          /\ diff.TaskGroups[i].Updates = annotateUpdates(pre.TaskGroups[i], annotations).Updates
          /\ diff.TaskGroups[i].Tasks = pre.TaskGroups[i].Tasks
    /\ (Returned /\ ret = "err") =>
          /\ Malformed(pre.TaskGroups[i])
          /\ diff.TaskGroups[i].Tasks = pre.TaskGroups[i].Tasks
          /\ diff.TaskGroups[i].Fields = pre.TaskGroups[i].Fields
          /\ HasEntry(annotations, pre.TaskGroups[i].Name) =>
                \A kind \in UpdateTypes :
                    LET c == annotations.DesiredTGUpdates[pre.TaskGroups[i].Name] IN
                    SourceCount(c, kind) > 0 =>
                        /\ kind \in DOMAIN diff.TaskGroups[i].Updates.m
                        /\ diff.TaskGroups[i].Updates.m[kind] = SourceCount(c, kind)
    /\ \A g \in 1..NGroups :
          (Done(g) /\ pre.TaskGroups[g].Type = "Edited") =>
              \A t \in 1..Len(pre.TaskGroups[g].Tasks) :
                  pre.TaskGroups[g].Tasks[t].Type = "Edited" =>
                      LET a == diff.TaskGroups[g].Tasks[t].Annotations IN
                      /\ Len(a) = Len(pre.TaskGroups[g].Tasks[t].Annotations) + 1
                      /\ a[Len(a)] \in TaskLabels

\* The call failed on a group whose counts were merged, whose Count field
\* is the malformed one and whose edited task has no label.
C9_Witness ==
    /\ Returned
    /\ ret = "err"
    /\ pre.TaskGroups[i].Updates = NilMap
    /\ diff.TaskGroups[i].Updates.m = PositiveCounts(SomeUpdates)
    /\ Len(diff.TaskGroups[i].Tasks) >= 1
    /\ diff.TaskGroups[i].Tasks[1].Type = "Edited"
    /\ diff.TaskGroups[i].Tasks[1].Annotations = <<>>
    /\ diff.TaskGroups[i].Fields[1].Name = "Count"
    /\ diff.TaskGroups[i].Fields[1].Annotations = <<>>

---------------------------------------------------------------------------
(* C7: only Edited nodes inside Edited nodes are written: a group that is  *)
(* not Edited gets no counts, no Count label, no task label and raises no  *)
(* error; a task that is not Edited is never annotated.                    *)
C7_OnlyEditedNodesWritten ==
    /\ Len(diff.TaskGroups) = NGroups
    /\ pre.Type # "Edited" => diff = pre
    /\ \A g \in 1..NGroups :
          /\ pre.TaskGroups[g].Type # "Edited" =>
                diff.TaskGroups[g] = pre.TaskGroups[g]
          /\ Len(diff.TaskGroups[g].Tasks) = Len(pre.TaskGroups[g].Tasks)
          /\ \A t \in 1..Len(pre.TaskGroups[g].Tasks) :
                pre.TaskGroups[g].Tasks[t].Type # "Edited" =>
                    diff.TaskGroups[g].Tasks[t] = pre.TaskGroups[g].Tasks[t]
    /\ (Returned /\ ret = "err") => pre.TaskGroups[i].Type = "Edited"

\* A call has returned nil on an edited job whose first group, added, has a
\* malformed Count field, an edited task and counts in the plan, and whose
\* second group, edited, holds an added task beside its annotated one.
C7_Witness ==
    /\ Returned
    /\ ret = "nil"
    /\ pre.Type = "Edited"
    /\ NGroups >= 2
    /\ pre.TaskGroups[1].Type = "Added"
    /\ Len(pre.TaskGroups[1].Fields) = 1
    /\ Len(pre.TaskGroups[2].Tasks) = 2
    /\ Atoi(pre.TaskGroups[1].Fields[1].Old).err
    /\ pre.TaskGroups[1].Tasks[1].Type = "Edited"
    /\ HasEntry(annotations, "web")
    /\ annotations.DesiredTGUpdates["web"] = AllUpdates
    /\ pre.TaskGroups[2].Type = "Edited"
    /\ pre.TaskGroups[2].Tasks[2].Type = "Added"
    /\ diff.TaskGroups[2].Tasks[1].Annotations # <<>>

---------------------------------------------------------------------------
(* C10: Annotate only appends. No step of a call changes the plan           *)
(* annotations; at every moment the tree has the types, names, Old/New      *)
(* values and the shape it had when the call started, every Annotations     *)
(* sequence extends the one the node had, and an Updates key that was       *)
(* present keeps its value unless the plan has a nonzero count for it.      *)
C10_AppendOnly ==
    [][JobFrame' /\ (pc # "idle" => annotations' = annotations)]_vars

\* A second call has returned with a group that keeps a key of the first
\* call for which the second plan has a zero count, and a task whose label
\* of the first call is followed by the label of the second.
C10_Witness ==
    /\ Returned
    /\ calls = 2
    /\ NGroups = 1
    /\ Len(pre.TaskGroups[1].Tasks) = 1
    /\ HasEntry(annotations, "web")
    /\ annotations.DesiredTGUpdates["web"] = SomeUpdates
    /\ pre.TaskGroups[1].Updates.m = PositiveCounts(AllUpdates)
    /\ DOMAIN diff.TaskGroups[1].Updates.m = UpdateTypes
    /\ diff.TaskGroups[1].Updates.m["migrate"] = 3
    /\ diff.TaskGroups[1].Updates.m["create"] = 2
    /\ Len(diff.TaskGroups[1].Tasks[1].Annotations) = 2

---------------------------------------------------------------------------
(* C2: an Edited task diff gets the destructive label exactly when its     *)
(* Fields are nonempty or one of its Objects is named outside LogConfig,   *)
(* Service, Constraint, and the in-place label otherwise; every            *)
(* permutation of its Objects gives the same label.                        *)
C2_DestructiveIffFieldOrUnsafeObject ==
    \A g \in 1..NGroups :
        (Done(g) /\ pre.TaskGroups[g].Type = "Edited") =>
            \A t \in 1..Len(pre.TaskGroups[g].Tasks) :
                LET t0 == pre.TaskGroups[g].Tasks[t]
                    a == diff.TaskGroups[g].Tasks[t].Annotations
                    unsafe == \E k \in 1..Len(t0.Objects) :
                                 t0.Objects[k].Name \notin {"LogConfig", "Service", "Constraint"}
                IN  t0.Type = "Edited" =>
                        /\ a = Append(t0.Annotations,
                                      IF Len(t0.Fields) > 0 \/ unsafe
                                      THEN "forces create/destroy update"
                                      ELSE "forces in-place update")
                        /\ \A q \in Permutations(1..Len(t0.Objects)) :
                              annotateTask(Permuted(t0, q)).Annotations = a

\* A task without changed fields whose objects are a Template followed by a
\* Service has been labelled destructive.
C2_Witness ==
    /\ Returned
    /\ ret = "nil"
    /\ calls = 1
    /\ NGroups = 1
    /\ Len(pre.TaskGroups[1].Tasks) = 1
    /\ pre.TaskGroups[1].Tasks[1].Type = "Edited"
    /\ pre.TaskGroups[1].Tasks[1].Fields = <<>>
    /\ pre.TaskGroups[1].Tasks[1].Objects = <<ObjectDiff("Template"), ObjectDiff("Service")>>
    /\ diff.TaskGroups[1].Tasks[1].Annotations = <<"forces create/destroy update">>

---------------------------------------------------------------------------
(* C3 as stated: whatever sequence of Annotate calls the tree has seen,    *)
(* every task diff carries at most one of the two task labels, and every   *)
(* classified Edited task exactly one.                                     *)
C3_AtMostOneLabelEver ==
    \A g \in 1..NGroups :
        \A t \in 1..Len(diff.TaskGroups[g].Tasks) :
            LET a == diff.TaskGroups[g].Tasks[t].Annotations IN
            /\ Occurrences(a, TaskLabels) <= 1
            /\ (Done(g) /\ pre.TaskGroups[g].Type = "Edited"
                        /\ pre.TaskGroups[g].Tasks[t].Type = "Edited") =>
                  Occurrences(a, TaskLabels) = 1

(* C3 as amended: a task diff never carries both task labels; each call    *)
(* that classifies an Edited task appends exactly one label to it, so the  *)
(* task carries exactly one label after the first call on a fresh tree     *)
(* and one more copy of the same label after each further call.           *)
C3_OneLabelPerCall ==
    \A g \in 1..NGroups :
        \A t \in 1..Len(diff.TaskGroups[g].Tasks) :
            LET a == diff.TaskGroups[g].Tasks[t].Annotations
                a0 == pre.TaskGroups[g].Tasks[t].Annotations
            IN  /\ Occurrences(a, {AnnotationForcesInplaceUpdate}) = 0
                   \/ Occurrences(a, {AnnotationForcesDestructiveUpdate}) = 0
                /\ Occurrences(a, TaskLabels) <= calls
                /\ (Done(g) /\ pre.TaskGroups[g].Type = "Edited"
                            /\ pre.TaskGroups[g].Tasks[t].Type = "Edited") =>
                      /\ Occurrences(a, TaskLabels) = Occurrences(a0, TaskLabels) + 1
                      /\ calls = 1 => Occurrences(a, TaskLabels) = 1

\* A second call has labelled again a task the first call had labelled.
C3_Witness ==
    /\ Returned
    /\ calls = 2
    /\ NGroups = 1
    /\ Len(diff.TaskGroups[1].Tasks) = 1
    /\ diff.TaskGroups[1].Tasks[1].Annotations =
          <<AnnotationForcesDestructiveUpdate, AnnotationForcesDestructiveUpdate>>

---------------------------------------------------------------------------
(* C4: when the first Count field of an Edited group has Old and New that  *)
(* both parse, annotateCountChange appends to it "forces create" when      *)
(* new > old, "forces destroy" when new < old and nothing when they are    *)
(* numerically equal (Old "03", New "3"); no other field of the group is   *)
(* touched.                                                                *)
C4_CountLabelByNumericOrder ==
    \A g \in 1..NGroups :
        LET fs0 == pre.TaskGroups[g].Fields
            fs == diff.TaskGroups[g].Fields
            k == FindCount(fs0)
        IN  (Counted(g) /\ pre.TaskGroups[g].Type = "Edited" /\ k # 0
                 /\ ~Atoi(fs0[k].Old).err /\ ~Atoi(fs0[k].New).err) =>
                LET oldV == Atoi(fs0[k].Old).v
                    newV == Atoi(fs0[k].New).v
                IN  /\ Len(fs) = Len(fs0)
                    /\ \A f \in 1..Len(fs0) : f # k => fs[f] = fs0[f]
                    /\ newV > oldV =>
                          fs[k].Annotations = Append(fs0[k].Annotations, "forces create")
                    /\ newV < oldV =>
                          fs[k].Annotations = Append(fs0[k].Annotations, "forces destroy")
                    /\ newV = oldV => fs[k].Annotations = fs0[k].Annotations
                    /\ (fs0[k].Old = <<"0", "3">> /\ fs0[k].New = <<"3">>) =>
                          fs[k].Annotations = fs0[k].Annotations
                    /\ (fs0[k].Old = <<"3">> /\ fs0[k].New = <<"3", "0">>) =>
                          fs[k].Annotations = Append(fs0[k].Annotations, "forces create")
                    /\ (fs0[k].Old = <<"3">> /\ fs0[k].New = <<"-", "3">>) =>
                          fs[k].Annotations = Append(fs0[k].Annotations, "forces destroy")

\* A Count field with Old "03" and New "3" has been classified and carries
\* no label.
C4_Witness ==
    /\ Returned
    /\ ret = "nil"
    /\ NGroups = 1
    /\ pre.TaskGroups[1].Type = "Edited"
    /\ Len(pre.TaskGroups[1].Fields) = 1
    /\ pre.TaskGroups[1].Fields[1].Name = "Count"
    /\ pre.TaskGroups[1].Fields[1].Old = <<"0", "3">>
    /\ pre.TaskGroups[1].Fields[1].New = <<"3">>
    /\ diff.TaskGroups[1].Fields[1].Annotations = <<>>

---------------------------------------------------------------------------
(* C5 as stated: once the counts of an Edited group with an entry in the   *)
(* plan are merged, its Updates holds exactly the kinds whose source count *)
(* is positive, each with that count, and no other key.                    *)
C5_UpdatesExactlyPositiveCounts ==
    \A g \in 1..NGroups :
        (Merged(g) /\ pre.TaskGroups[g].Type = "Edited"
                   /\ HasEntry(annotations, pre.TaskGroups[g].Name)) =>
            diff.TaskGroups[g].Updates.m =
                PositiveCounts(annotations.DesiredTGUpdates[pre.TaskGroups[g].Name])

(* C5 as amended: the merge writes exactly the kinds whose source count is *)
(* positive, each with that count, and keeps every key Updates held        *)
(* before the call; on a group whose Updates held no key before the call   *)
(* (a freshly built diff) the result is exactly the positive counts.       *)
C5_UpdatesMergePositiveCounts ==
    \A g \in 1..NGroups :
        (Merged(g) /\ pre.TaskGroups[g].Type = "Edited"
                   /\ HasEntry(annotations, pre.TaskGroups[g].Name)) =>
            LET c == annotations.DesiredTGUpdates[pre.TaskGroups[g].Name]
                u0 == pre.TaskGroups[g].Updates.m
                u == diff.TaskGroups[g].Updates.m
            IN  /\ DOMAIN u = (DOMAIN u0) \cup DOMAIN PositiveCounts(c)
                /\ \A kind \in DOMAIN u :
                      u[kind] = IF kind \in DOMAIN PositiveCounts(c)
                                THEN SourceCount(c, kind) ELSE u0[kind]
                /\ DOMAIN u0 = {} => u = PositiveCounts(c)

\* The first call has merged {Place: 2, Stop: 1, rest 0} into a group
\* without Updates: the group holds exactly create -> 2 and destroy -> 1.
C5_Witness ==
    /\ Called
    /\ calls = 1
    /\ Merged(1)
    /\ pre.TaskGroups[1].Type = "Edited"
    /\ pre.TaskGroups[1].Updates = NilMap
    /\ HasEntry(annotations, pre.TaskGroups[1].Name)
    /\ annotations.DesiredTGUpdates[pre.TaskGroups[1].Name] = DesiredUpdates(0, 2, 0, 1, 0, 0)
    /\ DOMAIN diff.TaskGroups[1].Updates.m = {"create", "destroy"}
    /\ diff.TaskGroups[1].Updates.m["create"] = 2
    /\ diff.TaskGroups[1].Updates.m["destroy"] = 1

---------------------------------------------------------------------------
(* C8 as stated: an Edited group ends in the same state, Updates and all   *)
(* annotations, whether the plan has no entry under its name or an entry   *)
(* whose six counts are zero.                                              *)
C8_NoEntrySameAsZeroEntry ==
    \A g \in 1..NGroups :
        LET tg0 == pre.TaskGroups[g] IN
        (tg0.Type = "Edited" /\ NoCounts(annotations, tg0.Name)) =>
            /\ Merged(g) =>
                  diff.TaskGroups[g].Updates =
                      annotateUpdates(tg0, OtherPlan(annotations, tg0.Name)).Updates
            /\ Done(g) =>
                  diff.TaskGroups[g] = RunGroup(tg0, OtherPlan(annotations, tg0.Name))

(* C8 as amended: in both cases no key is written to Updates and the       *)
(* group ends with the same Updates entries and the same annotations; the  *)
(* two differ in one thing: with a zero entry a nil Updates becomes an     *)
(* allocated, empty map, and with no entry it stays nil.                   *)
C8_NoEntrySameEntriesAsZeroEntry ==
    \A g \in 1..NGroups :
        LET tg0 == pre.TaskGroups[g] IN
        (tg0.Type = "Edited" /\ NoCounts(annotations, tg0.Name)) =>
            /\ Merged(g) =>
                  /\ diff.TaskGroups[g].Updates.m = tg0.Updates.m
                  /\ diff.TaskGroups[g].Updates.m =
                        annotateUpdates(tg0, OtherPlan(annotations, tg0.Name)).Updates.m
                  /\ diff.TaskGroups[g].Updates.isnil =
                        (tg0.Updates.isnil /\ ~HasEntry(annotations, tg0.Name))
            /\ Done(g) =>
                  Entries(diff.TaskGroups[g]) =
                      Entries(RunGroup(tg0, OtherPlan(annotations, tg0.Name)))

\* A call whose plan has six zeros for the group has returned: the group,
\* whose Updates was nil, holds an allocated map without keys, and its task
\* is annotated.
C8_Witness ==
    /\ Returned
    /\ ret = "nil"
    /\ NGroups = 1
    /\ pre.TaskGroups[1].Type = "Edited"
    /\ HasEntry(annotations, pre.TaskGroups[1].Name)
    /\ annotations.DesiredTGUpdates[pre.TaskGroups[1].Name] = ZeroUpdates
    /\ pre.TaskGroups[1].Updates = NilMap
    /\ diff.TaskGroups[1].Updates = MakeMap
    /\ Len(diff.TaskGroups[1].Tasks) = 1
    /\ diff.TaskGroups[1].Tasks[1].Annotations # <<>>

====
